---- MODULE Spec2Model ----
(***************************************************************************)
(* Model of the chat proxy handler POST of src/app/api/route.js.           *)
(*                                                                         *)
(* One invocation of POST is a coroutine that runs to completion between   *)
(* its three await points (request.json(), model.generateContent(),        *)
(* result.response).  Each action below is the code that runs from one     *)
(* await point to the next.  Several invocations may be in flight; their   *)
(* steps interleave at the await points only.                              *)
(*                                                                         *)
(* A message text is a sequence of fragments (pieces of text); a fragment  *)
(* is a string of a small universe.  toLowerCase and includes are computed *)
(* fragment by fragment from tables of that universe.                      *)
(***************************************************************************)
EXTENDS Integers, Sequences, FiniteSets, TLC

\* ------------------------------------------------------------------ bounds
NumReq == 2        \* invocations of POST that may be in flight together
MaxMsgLen == 2     \* fragments in the message of a value thrown by the upstream
MaxBodyLen == 1    \* fragments in the text of a malformed request body

Reqs == 1..NumReq

\* ------------------------------------------------------------ text model
\* Fragments a thrown value's message or a malformed body is made of.
Fragments ==
  { "API key not valid", "api key not valid",
    "Quota exceeded", "quota exceeded",
    "Model Not Found", "model not found",
    "is not valid JSON", "is not valid json",
    "fetch failed" }

\* String.prototype.toLowerCase on one fragment.
LowerFragment(f) ==
  CASE f = "API key not valid" -> "api key not valid"
    [] f = "Quota exceeded" -> "quota exceeded"
    [] f = "Model Not Found" -> "model not found"
    [] f = "is not valid JSON" -> "is not valid json"
    [] f = "Unexpected token" -> "unexpected token"
    [] f = "in JSON at position" -> "in json at position"
    [] f = "Unexpected end of JSON input" -> "unexpected end of json input"
    [] f = "Cannot read properties of null (reading 'prompt')"
         -> "cannot read properties of null (reading 'prompt')"
    [] f = "Cannot convert object to primitive value"
         -> "cannot convert object to primitive value"
    [] OTHER -> f

\* toLowerCase of a message, as used at lines 55, 58 and 61.
ToLowerCase(msg) == [i \in 1..Len(msg) |-> LowerFragment(msg[i])]

\* The search strings of lines 55-64 that occur (case-sensitively) in a fragment.
NeedlesIn(f) ==
  CASE f = "api key not valid" -> {"api key not valid"}
    [] f = "quota exceeded" -> {"quota"}
    [] f = "model not found" -> {"model not found"}
    [] f = "is not valid JSON" -> {"JSON"}
    [] f = "in JSON at position" -> {"JSON"}
    [] f = "Unexpected end of JSON input" -> {"JSON"}
    [] OTHER -> {}

\* String.prototype.includes, case-sensitive.
Includes(msg, needle) == \E i \in 1..Len(msg) : needle \in NeedlesIn(msg[i])

Messages == UNION { [1..n -> Fragments] : n \in 0..MaxMsgLen }

\* ------------------------------------------------------- thrown values
\* A value that reaches the catch clause of line 44.  class is the
\* constructor ("null" and "undefined" for those two values, "string" for a
\* thrown string); msgKind says what reading .message gives.
Thrown(class, msgKind, message) ==
  [class |-> class, msgKind |-> msgKind, message |-> message]

NoError == Thrown("none", "absent", <<>>)

\* Values the upstream client may reject or throw with (lines 35-37).
UpstreamErrors ==
  { Thrown(c, "string", m) : c \in {"Error", "SyntaxError"}, m \in Messages }
    \cup { Thrown("Error", "absent", <<>>),
           Thrown("Object", "number", <<>>),
           Thrown("string", "absent", <<>>),
           Thrown("null", "absent", <<>>),
           Thrown("undefined", "absent", <<>>) }

\* --------------------------------------------------------- JSON values
\* A JavaScript value as far as lines 19-22 and 27 look at it.
Value(type, val) == [type |-> type, val |-> val]

Undefined == Value("undefined", "")

\* Values the prompt member of a JSON object may hold.  "opaque" is an object
\* whose toString and valueOf members are not callable, e.g.
\* {"toString": 1, "valueOf": 1}.
PromptValues ==
  { Value("null", ""), Value("boolean", "false"), Value("boolean", "true"),
    Value("number", "0"), Value("number", "7"),
    Value("string", ""), Value("string", "hello"),
    Value("object", "plain"), Value("object", "opaque") }

\* What request.json() can resolve to: the value null, another value that is
\* no object with members (number, string, boolean, array), or an object,
\* with or without a prompt member.
Json(type, prompt) == [type |-> type, prompt |-> prompt]

JsonValues ==
  { Json(t, Undefined) : t \in {"null", "number", "string", "boolean", "array", "object"} }
    \cup { Json("object", p) : p \in PromptValues }

\* A request body: text that parses to a JSON value, or text that does not.
Body(wellFormed, text, json) == [wellFormed |-> wellFormed, text |-> text, json |-> json]

MalformedTexts == UNION { [1..n -> Fragments] : n \in 0..MaxBodyLen }

Bodies ==
  { Body(TRUE, <<>>, j) : j \in JsonValues }
    \cup { Body(FALSE, t, Json("none", Undefined)) : t \in MalformedTexts }

\* The message of the SyntaxError request.json() rejects with (line 18).  It
\* depends on the JavaScript engine: "echo" quotes the offending text
\* (Unexpected token 'q', "quota" is not valid JSON), "position" does not
\* (Unexpected token q in JSON at position 0).
ParseStyles == {"echo", "position"}

ParseErrorMessage(style, text) ==
  IF text = <<>> THEN <<"Unexpected end of JSON input">>
  ELSE IF style = "echo" THEN <<"Unexpected token">> \o text \o <<"is not valid JSON">>
  ELSE <<"Unexpected token", "in JSON at position">>

TruthyUnlessNullish(v) == v.type \notin {"undefined", "null"}

\* Truthiness of a value: the tests of lines 10 and 22.
Truthy(v) ==
  CASE v.type \in {"undefined", "null"} -> FALSE
    [] v.type = "boolean" -> v.val = "true"
    [] v.type = "number" -> v.val # "0"
    [] v.type = "string" -> v.val # ""
    [] OTHER -> TRUE

\* reqBody.prompt of line 19: reading a member of null throws a TypeError,
\* of any other value gives the member or undefined.
PropertyThrows(json) == json.type = "null"

GetPrompt(json) == IF json.type = "object" THEN json.prompt ELSE Undefined

\* The template literal of line 27 converts the prompt to a string, which
\* throws a TypeError for an object without callable toString and valueOf.
TemplateThrows(v) == v.type = "object" /\ v.val = "opaque"

\* ------------------------------------------------------- environment
\* process.env.GEMINI_API_KEY: unset (undefined) or a string, maybe empty.
EnvValues == { Undefined, Value("string", ""), Value("string", "AIza-1"), Value("string", "AIza-2") }

\* The test of line 10.
KeyMissingUnsetOnly(key) == key.type = "undefined"

KeyMissing(key) == ~Truthy(key)

\* ---------------------------------------------------------- responses
\* NextResponse.json(body, {status}); the status defaults to 200.
Response(status, body) == [status |-> status, body |-> body]

ConfigMissingResponse ==
  Response(500, [error |-> <<"AI service not configured. API Key missing.">>])

NoPromptResponse ==
  Response(400, [error |-> <<"No prompt provided in request body.">>])

SuccessResponseOfResult(text) == Response(200, [reply |-> ""])

SuccessResponse(text) == Response(200, [reply |-> text])

ErrorResponse(status, message) ==
  Response(status, [error |-> message, details |-> "See server logs for more information."])

\* ------------------------------------------------------- catch clause
\* The outcome of the catch clause for the caught value e: it either throws
\* itself (reading .message of null or undefined at line 50, or calling
\* toLowerCase on a message that is no string at line 55) or gives the
\* status and message of the response of line 74.
Outcome(escapes, status, error) == [escapes |-> escapes, status |-> status, error |-> error]

MessageTruthy(e) == (e.msgKind = "string" /\ e.message # <<>>) \/ e.msgKind = "number"

CatchQuotaAfterModel(e) ==
  IF e.class \in {"null", "undefined"} \/ e.msgKind = "number"
  THEN Outcome(TRUE, 0, <<>>)
  ELSE IF MessageTruthy(e) /\ Includes(ToLowerCase(e.message), "api key not valid")
  THEN Outcome(FALSE, 401, <<"Gemini API Key is not valid. Please check your .env.local file and ensure it's correct.">>)
  ELSE IF MessageTruthy(e) /\ Includes(ToLowerCase(e.message), "model not found")
  THEN Outcome(FALSE, 404, <<"The specified AI model was not found. Check the model name.">>)
  ELSE IF MessageTruthy(e) /\ Includes(ToLowerCase(e.message), "quota")
  THEN Outcome(FALSE, 429, <<"API quota exceeded. Please check your Google Cloud console.">>)
  ELSE IF e.class = "SyntaxError" /\ Includes(e.message, "JSON")
  THEN Outcome(FALSE, 400, <<"Invalid JSON in request body.">>)
  ELSE IF MessageTruthy(e)
  THEN Outcome(FALSE, 500, e.message)
  ELSE Outcome(FALSE, 500, <<"Failed to get response from AI.">>)

Catch(e) ==
  IF e.class \in {"null", "undefined"} \/ e.msgKind = "number"
  THEN Outcome(TRUE, 0, <<>>)
  ELSE IF MessageTruthy(e) /\ Includes(ToLowerCase(e.message), "api key not valid")
  THEN Outcome(FALSE, 401, <<"Gemini API Key is not valid. Please check your .env.local file and ensure it's correct.">>)
  ELSE IF MessageTruthy(e) /\ Includes(ToLowerCase(e.message), "quota")
  THEN Outcome(FALSE, 429, <<"API quota exceeded. Please check your Google Cloud console.">>)
  ELSE IF MessageTruthy(e) /\ Includes(ToLowerCase(e.message), "model not found")
  THEN Outcome(FALSE, 404, <<"The specified AI model was not found. Check the model name.">>)
  ELSE IF e.class = "SyntaxError" /\ Includes(e.message, "JSON")
  THEN Outcome(FALSE, 400, <<"Invalid JSON in request body.">>)
  ELSE IF MessageTruthy(e)
  THEN Outcome(FALSE, 500, e.message)
  ELSE Outcome(FALSE, 500, <<"Failed to get response from AI.">>)

\* ------------------------------------------------------ upstream results
\* What generateContent resolves to (line 35): a result whose response.text()
\* returns the generated text, or throws (line 37).
Result(ok, text, error) == [ok |-> ok, text |-> text, error |-> error]

NoResult == Result(FALSE, "", NoError)

Texts == {"hi there", ""}

Results ==
  { Result(TRUE, t, NoError) : t \in Texts }
    \cup { Result(FALSE, "", e) : e \in UpstreamErrors }

\* The request submitted to the upstream service by lines 30-35.
Call(apiKey, prompt) == [apiKey |-> apiKey, model |-> "gemini-pro", prompt |-> prompt]

SubmitTwice(cs, call) == Append(Append(cs, call), call)

\* model.generateContent(userPrompt) is invoked once (line 35).
Submit(cs, call) == Append(cs, call)

\* ------------------------------------------------------------- state
VARIABLES
  pc,         \* pc[r]: where invocation r stands
  input,      \* input[r]: the credential in the environment at its start, and its body
  locals,     \* locals[f]: the constants of the activation frame f of POST
  responses,  \* responses[r]: the responses invocation r has returned
  calls,      \* calls[r]: the requests invocation r has submitted to the upstream
  caught,     \* caught[r]: the value the catch clause of invocation r received
  upstream,   \* upstream[r]: how request.json() and the upstream answered r
  jsonCalls   \* jsonCalls[r]: how often r has called request.json()

vars == <<pc, input, locals, responses, calls, caught, upstream, jsonCalls>>

Locals(key, prompt, result) == [GEMINI_API_KEY |-> key, userPrompt |-> prompt, result |-> result]

Answer(style, kind, result) == [style |-> style, kind |-> kind, result |-> result]

SharedFrame(r) == 1

\* The activation frame holding the const bindings of invocation r: each call
\* of POST has its own (lines 7, 18, 19, 30, 31, 35-37 declare with const).
Frame(r) == r

Init ==
  /\ pc = [r \in Reqs |-> "init"]
  /\ input = [r \in Reqs |-> [key |-> Undefined, body |-> Body(FALSE, <<>>, Json("none", Undefined))]]
  /\ locals = [r \in Reqs |-> Locals(Undefined, Undefined, NoResult)]
  /\ responses = [r \in Reqs |-> <<>>]
  /\ calls = [r \in Reqs |-> <<>>]
  /\ caught = [r \in Reqs |-> NoError]
  /\ upstream = [r \in Reqs |-> Answer("none", "none", NoResult)]
  /\ jsonCalls = [r \in Reqs |-> 0]

\* Lines 44-75: the catch clause receives e; it returns the response of line
\* 74 or throws itself, which rejects the promise POST returned.
EnterCatch(r, e) ==
  /\ caught' = [caught EXCEPT ![r] = e]
  /\ IF Catch(e).escapes
     THEN /\ pc' = [pc EXCEPT ![r] = "escaped"]
          /\ UNCHANGED responses
     ELSE /\ pc' = [pc EXCEPT ![r] = "responded"]
          /\ responses' = [responses EXCEPT ![r] =
               Append(@, ErrorResponse(Catch(e).status, Catch(e).error))]

\* Lines 7-18: read the credential; without it return 500, else call
\* request.json() and suspend.
Start(r, key, body) ==
  /\ pc[r] = "init"
  /\ input' = [input EXCEPT ![r] = [key |-> key, body |-> body]]
  /\ locals' = [locals EXCEPT ![Frame(r)].GEMINI_API_KEY = key]
  /\ IF KeyMissing(key)
     THEN /\ pc' = [pc EXCEPT ![r] = "responded"]
          /\ responses' = [responses EXCEPT ![r] = Append(@, ConfigMissingResponse)]
          /\ UNCHANGED jsonCalls
     ELSE /\ pc' = [pc EXCEPT ![r] = "parsing"]
          /\ jsonCalls' = [jsonCalls EXCEPT ![r] = @ + 1]
          /\ UNCHANGED responses
  /\ UNCHANGED <<calls, caught, upstream>>

\* Line 18 rejects: the body is no JSON; the SyntaxError goes to the catch clause.
ParseRejects(r, style) ==
  /\ pc[r] = "parsing"
  /\ ~input[r].body.wellFormed
  /\ upstream' = [upstream EXCEPT ![r].style = style]
  /\ EnterCatch(r, Thrown("SyntaxError", "string", ParseErrorMessage(style, input[r].body.text)))
  /\ UNCHANGED <<input, locals, calls, jsonCalls>>

\* Lines 18-35: request.json() resolves; read the prompt, return 400 without
\* one, else log it, build the client and call generateContent, and suspend.
ParseResolves(r) ==
  /\ pc[r] = "parsing"
  /\ input[r].body.wellFormed
  /\ LET reqBody == input[r].body.json
         userPrompt == GetPrompt(reqBody)
     IN IF PropertyThrows(reqBody)
        THEN /\ EnterCatch(r, Thrown("TypeError", "string",
                    <<"Cannot read properties of null (reading 'prompt')">>))
             /\ UNCHANGED <<locals, calls>>
        ELSE /\ locals' = [locals EXCEPT ![Frame(r)].userPrompt = userPrompt]
             /\ IF ~Truthy(userPrompt)
                THEN /\ pc' = [pc EXCEPT ![r] = "responded"]
                     /\ responses' = [responses EXCEPT ![r] = Append(@, NoPromptResponse)]
                     /\ UNCHANGED <<calls, caught>>
                ELSE IF TemplateThrows(userPrompt)
                THEN /\ EnterCatch(r, Thrown("TypeError", "string",
                            <<"Cannot convert object to primitive value">>))
                     /\ UNCHANGED calls
                ELSE /\ calls' = [calls EXCEPT ![r] =
                            Submit(@, Call(locals[Frame(r)].GEMINI_API_KEY, userPrompt))]
                     /\ pc' = [pc EXCEPT ![r] = "generating"]
                     /\ UNCHANGED <<responses, caught>>
  /\ UNCHANGED <<input, upstream, jsonCalls>>

\* Line 35 rejects: the upstream call failed with e.
GenerateContentRejects(r, e) ==
  /\ pc[r] = "generating"
  /\ upstream' = [upstream EXCEPT ![r].kind = "rejects", ![r].result = Result(FALSE, "", e)]
  /\ EnterCatch(r, e)
  /\ UNCHANGED <<input, locals, calls, jsonCalls>>

\* Lines 35-36: generateContent resolves with a result; await its response.
GenerateContentResolves(r, res) ==
  /\ pc[r] = "generating"
  /\ upstream' = [upstream EXCEPT ![r].kind = "resolves", ![r].result = res]
  /\ locals' = [locals EXCEPT ![Frame(r)].result = res]
  /\ pc' = [pc EXCEPT ![r] = "awaitingResponse"]
  /\ UNCHANGED <<input, responses, calls, caught, jsonCalls>>

\* Lines 36-42: take the text of the response and return it with status 200;
\* response.text() may throw instead.
ResponseSettles(r) ==
  /\ pc[r] = "awaitingResponse"
  /\ LET result == locals[Frame(r)].result
     IN IF result.ok
        THEN /\ pc' = [pc EXCEPT ![r] = "responded"]
             /\ responses' = [responses EXCEPT ![r] = Append(@, SuccessResponse(result.text))]
             /\ UNCHANGED caught
        ELSE EnterCatch(r, result.error)
  /\ UNCHANGED <<input, locals, calls, upstream, jsonCalls>>

\* One invocation at a time, over every credential, body and upstream answer.
Next ==
  \E r \in {1} :
    \/ \E key \in EnvValues, body \in Bodies : Start(r, key, body)
    \/ \E style \in ParseStyles : ParseRejects(r, style)
    \/ ParseResolves(r)
    \/ \E e \in UpstreamErrors : GenerateContentRejects(r, e)
    \/ \E res \in Results : GenerateContentResolves(r, res)
    \/ ResponseSettles(r)

Spec == Init /\ [][Next]_vars

\* The hosting runtime resumes every suspended invocation whose awaited
\* promise has settled.
FairSpec == Spec /\ WF_vars(Next)

\* ---------------------------------------------- concurrent invocations
\* Several invocations in flight, over a few credentials, bodies and answers.
ConcKeys == { Undefined, Value("string", "AIza-1"), Value("string", "AIza-2") }

ConcBodies ==
  { Body(FALSE, <<"quota exceeded">>, Json("none", Undefined)),
    Body(TRUE, <<>>, Json("object", Undefined)),
    Body(TRUE, <<>>, Json("object", Value("string", "hello"))),
    Body(TRUE, <<>>, Json("object", Value("number", "7"))) }

ConcErrors == { Thrown("Error", "string", <<"Quota exceeded">>), Thrown("undefined", "absent", <<>>) }

ConcResults ==
  { Result(TRUE, t, NoError) : t \in Texts }
    \cup { Result(FALSE, "", Thrown("Error", "string", <<"fetch failed">>)) }

NextConc ==
  \E r \in Reqs :
    \/ \E key \in ConcKeys, body \in ConcBodies : Start(r, key, body)
    \/ \E style \in {"echo"} : ParseRejects(r, style)
    \/ ParseResolves(r)
    \/ \E e \in ConcErrors : GenerateContentRejects(r, e)
    \/ \E res \in ConcResults : GenerateContentResolves(r, res)
    \/ ResponseSettles(r)

ConcSpec == Init /\ [][NextConc]_vars

\* ============================================================== claims
Finished(r) == pc[r] \in {"responded", "escaped"}

FalsyPrompts ==
  { Undefined, Value("null", ""), Value("boolean", "false"), Value("number", "0"),
    Value("string", "") }

PromptOf(body) == IF body.json.type = "object" THEN body.json.prompt ELSE Undefined

KeyConfigured(r) == input[r].key.type = "string" /\ input[r].key.val # ""

\* C1: whenever the credential is unset or empty, the invocation answers
\* with status 500 at once, whatever the body: the upstream is never invoked
\* and request.json() is never called.
C1_MissingCredential ==
  \A r \in Reqs :
    (pc[r] # "init" /\ ~KeyConfigured(r)) =>
      /\ pc[r] = "responded"
      /\ Len(responses[r]) = 1
      /\ responses[r][1].status = 500
      /\ calls[r] = <<>>
      /\ jsonCalls[r] = 0

C1_Witness ==
  \E r \in Reqs :
    /\ pc[r] = "responded"
    /\ input[r].key = Value("string", "")
    /\ ~input[r].body.wellFormed

\* C2: with the credential configured, every parseable body without a
\* truthy prompt (the value null and other non-objects included) is answered
\* with status 400 and the upstream is never invoked.
C2_MissingPrompt400 ==
  \A r \in Reqs :
    (Finished(r) /\ KeyConfigured(r) /\ input[r].body.wellFormed
       /\ PromptOf(input[r].body) \in FalsyPrompts) =>
      /\ Len(responses[r]) = 1
      /\ responses[r][1].status = 400
      /\ calls[r] = <<>>

\* C3: with the credential configured, every malformed body is answered
\* with status 400 and the error "Invalid JSON in request body.", whatever
\* the text of the parse failure, and the upstream is never invoked.
C3_MalformedBody400 ==
  \A r \in Reqs :
    (Finished(r) /\ KeyConfigured(r) /\ ~input[r].body.wellFormed) =>
      /\ Len(responses[r]) = 1
      /\ responses[r][1].status = 400
      /\ responses[r][1].body.error = <<"Invalid JSON in request body.">>
      /\ calls[r] = <<>>

Mentions(e, fragments) ==
  e.msgKind = "string" /\ \E i \in 1..Len(e.message) : e.message[i] \in fragments

TableRow(e) ==
  CASE Mentions(e, {"API key not valid", "api key not valid"}) ->
         <<401, <<"Gemini API Key is not valid. Please check your .env.local file and ensure it's correct.">> >>
    [] ~Mentions(e, {"API key not valid", "api key not valid"})
         /\ Mentions(e, {"Quota exceeded", "quota exceeded"}) ->
         <<429, <<"API quota exceeded. Please check your Google Cloud console.">> >>
    [] ~Mentions(e, {"API key not valid", "api key not valid", "Quota exceeded", "quota exceeded"})
         /\ Mentions(e, {"Model Not Found", "model not found"}) ->
         <<404, <<"The specified AI model was not found. Check the model name.">> >>
    [] ~Mentions(e, {"API key not valid", "api key not valid", "Quota exceeded", "quota exceeded",
                     "Model Not Found", "model not found"})
         /\ e.class = "SyntaxError"
         /\ Mentions(e, {"is not valid JSON", "in JSON at position", "Unexpected end of JSON input"}) ->
         <<400, <<"Invalid JSON in request body.">> >>
    [] OTHER ->
         IF e.msgKind = "string" /\ Len(e.message) > 0
         THEN <<500, e.message>>
         ELSE <<500, <<"Failed to get response from AI.">> >>

\* C4: the response the catch clause gives for a caught value follows the
\* ordered table: "api key not valid" -> 401, else "quota" -> 429, else
\* "model not found" -> 404 (all three in any case), else a JSON parse
\* failure (a SyntaxError naming JSON) -> 400, else 500 with the value's own
\* message, or the fallback text when it carries none.
C4_ErrorTable ==
  \A r \in Reqs :
    (pc[r] = "responded" /\ caught[r] # NoError) =>
      /\ Len(responses[r]) = 1
      /\ <<responses[r][1].status, responses[r][1].body.error>> = TableRow(caught[r])

C4_Witness ==
  \E r \in Reqs :
    /\ pc[r] = "responded"
    /\ caught[r] = Thrown("Error", "string", <<"model not found", "Quota exceeded">>)
    /\ responses[r][1].status = 429

\* C5: every response whose status is not 200 carries an error and a
\* details member.
C5_ErrorsCarryDetails ==
  \A r \in Reqs :
    \A i \in 1..Len(responses[r]) :
      responses[r][i].status # 200 =>
        {"error", "details"} \subseteq DOMAIN responses[r][i].body

C7_NothingEscapes ==
  \A r \in Reqs :
    Finished(r) => (pc[r] = "responded" /\ Len(responses[r]) = 1)

\* C8: an invocation submits at most one request to the upstream, and a
\* failure ends it: once its catch clause has run it is over, with the
\* requests it had submitted before.
C8_NoRetry ==
  \A r \in Reqs :
    /\ Len(calls[r]) <= 1
    /\ caught[r] # NoError => Finished(r)
    /\ (Finished(r) /\ upstream[r].kind # "none") => Len(calls[r]) = 1

C8_Witness ==
  \E r \in Reqs :
    /\ upstream[r].kind = "rejects"
    /\ Finished(r)
    /\ Len(calls[r]) = 1

\* What an invocation returns when it runs alone with the credential key,
\* the body, and the answers ans of request.json() and of the upstream.
AloneCatch(e) ==
  IF Catch(e).escapes THEN <<>> ELSE <<ErrorResponse(Catch(e).status, Catch(e).error)>>

Alone(key, body, ans) ==
  IF KeyMissing(key) THEN <<ConfigMissingResponse>>
  ELSE IF ~body.wellFormed
  THEN AloneCatch(Thrown("SyntaxError", "string", ParseErrorMessage(ans.style, body.text)))
  ELSE IF PropertyThrows(body.json)
  THEN AloneCatch(Thrown("TypeError", "string", <<"Cannot read properties of null (reading 'prompt')">>))
  ELSE IF ~Truthy(GetPrompt(body.json)) THEN <<NoPromptResponse>>
  ELSE IF TemplateThrows(GetPrompt(body.json))
  THEN AloneCatch(Thrown("TypeError", "string", <<"Cannot convert object to primitive value">>))
  ELSE IF ans.result.ok THEN <<SuccessResponse(ans.result.text)>>
  ELSE AloneCatch(ans.result.error)

\* C9: with several invocations in flight, each one that has ended has
\* returned what it returns when run alone with its own credential, body
\* and upstream answer, and what it submitted to the upstream was built
\* from its own credential and prompt.
C9_NoSharedState ==
  \A r \in Reqs :
    /\ Finished(r) => responses[r] = Alone(input[r].key, input[r].body, upstream[r])
    /\ \A i \in 1..Len(calls[r]) :
         calls[r][i] = Call(input[r].key, PromptOf(input[r].body))

C9_Witness ==
  \E r1, r2 \in Reqs :
    /\ r1 # r2
    /\ pc[r1] = "responded"
    /\ upstream[r1].result = Result(TRUE, "hi there", NoError)
    /\ pc[r2] = "awaitingResponse"
    /\ upstream[r2].result = Result(TRUE, "", NoError)
    /\ input[r1].key # input[r2].key

\* C10: a response has one of the six statuses; status 200 is returned only
\* with the credential present, the body parsed, the prompt truthy and one
\* upstream call that returned text; and nothing is submitted to the
\* upstream unless the credential and the prompt checks passed.
C10_Safety ==
  \A r \in Reqs :
    /\ \A i \in 1..Len(responses[r]) :
         /\ responses[r][i].status \in {200, 400, 401, 404, 429, 500}
         /\ responses[r][i].status = 200 =>
              /\ KeyConfigured(r)
              /\ input[r].body.wellFormed
              /\ PromptOf(input[r].body) \notin FalsyPrompts
              /\ Len(calls[r]) = 1
              /\ upstream[r].kind = "resolves" /\ upstream[r].result.ok
    /\ calls[r] # <<>> =>
         /\ KeyConfigured(r)
         /\ input[r].body.wellFormed
         /\ PromptOf(input[r].body) \notin FalsyPrompts

C10_Witness ==
  \E r \in Reqs :
    /\ pc[r] = "responded"
    /\ responses[r][1].status = 200
    /\ PromptOf(input[r].body) = Value("number", "7")

====
